---- MODULE Spec2Model ----
(***************************************************************************)
(* A model of app.py (PDF to Audio Converter): the sliding-window          *)
(* RateLimit, PDFAudioReader.chunk_text, PDFAudioReader.text_to_speech and *)
(* the reruns of main() in one Streamlit session.                          *)
(*                                                                         *)
(* A string is a sequence of one-character strings.  Time is the wall      *)
(* clock read by datetime.now().timestamp(), in whole seconds, and does    *)
(* not run backwards.  max_requests, time_window and max_chars are         *)
(* positive, as in every use the source makes of them.                     *)
(***************************************************************************)
EXTENDS Integers, Sequences, FiniteSets, TLC

VARIABLES
    clock,          \* the wall clock, datetime.now().timestamp()
    max_requests,   \* RateLimit.max_requests
    time_window,    \* RateLimit.time_window
    requests,       \* RateLimit.requests
    ret,            \* what the last is_allowed() returned: "none", "True", "False"
    call_now,       \* `now` of the last is_allowed() call
    pre_requests,   \* RateLimit.requests as the last is_allowed() call found it
    admitted,       \* the admissions so far (the most recent LogLen(max_requests))
    denials,        \* how many is_allowed() calls returned False (capped at 1)
    text,           \* chunk_text: the text argument
    max_chars,      \* chunk_text: the max_chars argument
    chunks,         \* chunk_text: the list returned
    pc,             \* where the program is
    idx,            \* text_to_speech: how many chunks the loop has been through (i)
    audio_segments, \* text_to_speech: audio_segments
    submitted,      \* the chunks passed to generate() in this invocation, in order
    checks,         \* how often this invocation consulted the rate limiter
    failed_at,      \* the number of the chunk whose generate() raised, 0 if none
    outcome,        \* how the last text_to_speech ended, "running" while it runs
    returned        \* the list the last text_to_speech returned, <<>> if none

rl_vars == <<clock, max_requests, time_window, requests, ret, call_now,
             pre_requests, admitted, denials>>

ct_vars == <<text, max_chars, chunks>>

tts_vars == <<idx, audio_segments, submitted, checks, failed_at, outcome, returned>>

vars == <<rl_vars, ct_vars, pc, tts_vars>>

\* ------------------------------------------------------------------ bounds
MaxRequests == 3
MaxWindow == 3
MaxClock == 10
MaxLen == 6
MaxChars == 6
MaxWaits == 2

\* ------------------------------------------------------------- RateLimit

\* (variant: a timestamp exactly time_window old still counts)
WithinWindowLe(now, req, window) == now - req <= window

\* now - req < self.time_window
WithinWindow(now, req, window) == now - req < window

\* (variant: nothing is purged)
PurgeNone(reqs, now, window) == reqs

\* [req for req in self.requests if now - req < self.time_window]
Purge(reqs, now, window) ==
    SelectSeq(reqs, LAMBDA req : WithinWindow(now, req, window))

\* (variant: > for >=)
AtLimitGt(reqs, max) == Len(reqs) > max

\* len(self.requests) >= self.max_requests
AtLimit(reqs, max) == Len(reqs) >= max

\* the value is_allowed() returns, called at `now` on a limiter holding reqs
IsAllowedResult(reqs, now, max, window) ==
    ~AtLimit(Purge(reqs, now, window), max)

\* self.requests when is_allowed() returns
IsAllowedRequests(reqs, now, max, window) ==
    IF AtLimit(Purge(reqs, now, window), max)
    THEN Purge(reqs, now, window)
    ELSE Append(Purge(reqs, now, window), now)

\* how many admissions the log keeps
LogLen(max) == max + 1

LogAppend(log, now, max) ==
    IF Len(log) < LogLen(max) THEN Append(log, now)
    ELSE Append(Tail(log), now)

BoolStr(b) == IF b THEN "True" ELSE "False"

\* RateLimit.__init__
RateLimitInit(max, window) ==
    /\ max_requests = max
    /\ time_window = window
    /\ requests = <<>>

\* RateLimit.is_allowed, on a limiter whose requests are reqs
IsAllowedOn(reqs) ==
    LET now == clock
        ok == IsAllowedResult(reqs, now, max_requests, time_window)
    IN  /\ requests' = IsAllowedRequests(reqs, now, max_requests, time_window)
        /\ ret' = BoolStr(ok)
        /\ call_now' = now
        /\ pre_requests' = reqs
        /\ admitted' = IF ok THEN LogAppend(admitted, now, max_requests) ELSE admitted
        /\ denials' = IF ok THEN denials ELSE 1
        /\ UNCHANGED <<clock, max_requests, time_window>>

\* a call of is_allowed()
is_allowed ==
    /\ IsAllowedOn(requests)
    /\ UNCHANGED <<ct_vars, pc, tts_vars>>

\* time passes
Tick ==
    /\ clock < MaxClock
    /\ clock' = clock + 1
    /\ UNCHANGED <<max_requests, time_window, requests, ret, call_now,
                   pre_requests, admitted, denials>>
    /\ UNCHANGED <<ct_vars, pc, tts_vars>>

RateLimitGhostInit ==
    /\ clock = 0
    /\ ret = "none"
    /\ call_now = 0
    /\ pre_requests = <<>>
    /\ admitted = <<>>
    /\ denials = 0

\* RateLimit(max_requests=2, time_window=10), the limiter of the documented example
ExampleLimit == <<2, 10>>

LimitInputs == ((1..MaxRequests) \X (1..MaxWindow)) \cup {ExampleLimit}

\* no chunk_text call is in progress
ChunkTextIdle ==
    /\ text = <<>>
    /\ max_chars = 1
    /\ chunks = <<>>

\* no text_to_speech call has been made
TextToSpeechIdle ==
    /\ idx = 0
    /\ audio_segments = <<>>
    /\ submitted = <<>>
    /\ checks = 0
    /\ failed_at = 0
    /\ outcome = "none"
    /\ returned = <<>>

InitRateLimit ==
    /\ \E in \in LimitInputs : RateLimitInit(in[1], in[2])
    /\ RateLimitGhostInit
    /\ ChunkTextIdle
    /\ TextToSpeechIdle
    /\ pc = "limiter"

NextRateLimit == Tick \/ is_allowed

SpecRateLimit == InitRateLimit /\ [][NextRateLimit]_vars

\* ------------------------------------------------------------ chunk_text

\* the characters the model's texts are written in
Alphabet == {"a", "b", ".", " ", "\n"}

\* str.strip() removes these
IsSpace(c) == c \in {" ", "\n", "\t", "\r"}

Min(S) == CHOOSE x \in S : \A y \in S : x <= y
Max(S) == CHOOSE x \in S : \A y \in S : x >= y

\* text.replace('\n', ' ')
ReplaceNewlines(t) == [i \in 1..Len(t) |-> IF t[i] = "\n" THEN " " ELSE t[i]]

\* where '. ' occurs in t; two occurrences cannot overlap, so str.split cuts at each
SepPositions(t) == {i \in 1..(Len(t) - 1) : t[i] = "." /\ t[i + 1] = " "}

\* the k-th smallest element of S
Kth(S, k) == CHOOSE x \in S : Cardinality({y \in S : y < x}) = k - 1

\* t.split('. '): one more string than there are separators
Split(t) ==
    LET P == SepPositions(t)
        n == Cardinality(P)
        from(k) == IF k = 1 THEN 1 ELSE Kth(P, k - 1) + 2
        to(k) == IF k = n + 1 THEN Len(t) ELSE Kth(P, k) - 1
    IN  [k \in 1..(n + 1) |-> SubSeq(t, from(k), to(k))]

\* sentence.strip()
Strip(s) ==
    LET keep == {i \in 1..Len(s) : ~IsSpace(s[i])}
    IN  IF keep = {} THEN <<>> ELSE SubSeq(s, Min(keep), Max(keep))

\* '. '.join(parts)
RECURSIVE Join(_)
Join(parts) ==
    IF Len(parts) = 0 THEN <<>>
    ELSE IF Len(parts) = 1 THEN parts[1]
    ELSE parts[1] \o <<".", " ">> \o Join(Tail(parts))

\* current_length + len(sentence) + 2 <= max_chars
Fits(current_length, sentence, limit) ==
    current_length + Len(sentence) + 2 <= limit

\* (variant: the length is reset to 0)
RestartLengthZero(sentence) == 0

\* current_length = len(sentence), when a sentence starts a new chunk
RestartLength(sentence) == Len(sentence)

\* (variant: a chunk of one sentence is not flushed)
FlushIfSeveral(done, current_chunk) ==
    IF Len(current_chunk) > 1
    THEN Append(done, Join(current_chunk) \o <<".">>)
    ELSE done

\* if current_chunk: chunks.append('. '.join(current_chunk) + '.')
Flush(done, current_chunk) ==
    IF current_chunk # <<>>
    THEN Append(done, Join(current_chunk) \o <<".">>)
    ELSE done

\* the for loop of chunk_text from sentence k on, and the flush after it
RECURSIVE ChunkLoop(_, _, _, _, _, _)
ChunkLoop(sentences, k, done, current_chunk, current_length, limit) ==
    IF k > Len(sentences) THEN Flush(done, current_chunk)
    ELSE LET sentence == Strip(sentences[k]) IN
         IF sentence = <<>>
         THEN ChunkLoop(sentences, k + 1, done, current_chunk, current_length, limit)
         ELSE IF Fits(current_length, sentence, limit)
         THEN ChunkLoop(sentences, k + 1, done, Append(current_chunk, sentence),
                        current_length + Len(sentence) + 2, limit)
         ELSE ChunkLoop(sentences, k + 1, Flush(done, current_chunk), <<sentence>>,
                        RestartLength(sentence), limit)

\* PDFAudioReader.chunk_text
chunk_text(t, limit) ==
    ChunkLoop(Split(ReplaceNewlines(t)), 1, <<>>, <<>>, 0, limit)

\* "Hello world. This is a test. Short." with max_chars=15, the documented example
ExampleText ==
    <<"H","e","l","l","o"," ","w","o","r","l","d","."," ",
      "T","h","i","s"," ","i","s"," ","a"," ","t","e","s","t","."," ",
      "S","h","o","r","t",".">>
ExampleInput == <<ExampleText, 15>>

\* "a. a.\na": three sentences, the last two of which share a chunk at max_chars=4
ThreeSentences == <<"a", ".", " ", "a", ".", "\n", "a">>

\* "a. aaaa. a": a long sentence between two short ones
LongMiddle == <<"a", ".", " ", "a", "a", "a", "a", ".", " ", "a">>

BoundedTexts == UNION {[1..n -> Alphabet] : n \in 0..MaxLen}

ChunkInputs ==
    ((BoundedTexts \cup {ThreeSentences, LongMiddle}) \X (1..MaxChars))
        \cup {ExampleInput}

\* a call of chunk_text(text, max_chars)
ChunkTextCall ==
    /\ pc = "call"
    /\ chunks' = chunk_text(text, max_chars)
    /\ pc' = "returned"
    /\ UNCHANGED <<rl_vars, text, max_chars, tts_vars>>

\* no RateLimit is in use
RateLimitIdle ==
    /\ RateLimitInit(1, 1)
    /\ RateLimitGhostInit

InitChunk ==
    /\ \E in \in ChunkInputs : text = in[1] /\ max_chars = in[2]
    /\ chunks = <<>>
    /\ pc = "call"
    /\ RateLimitIdle
    /\ TextToSpeechIdle

NextChunk == ChunkTextCall

SpecChunk == InitChunk /\ [][NextChunk]_vars

\* -------------------------------------------------------- text_to_speech

\* RateLimit(max_requests=10, time_window=3600)
ReaderMaxRequests == 10
ReaderTimeWindow == 3600

\* def chunk_text(self, text, max_chars=2000)
DefaultMaxChars == 2000

Repeat(c, n) == [k \in 1..n |-> c]

\* a text of three sentences, each of which needs a chunk of its own
LongText ==
    Repeat("a", DefaultMaxChars - 1) \o <<".", " ">>
        \o Repeat("b", DefaultMaxChars - 1) \o <<".", " ", "c">>

\* the texts text_to_speech is called with: no chunk, one chunk, three chunks
SpeechTexts == {<<>>, <<"a", ".", " ", "b">>, LongText}

\* self.chunk_text(text) for each text of SpeechTexts, evaluated once
SpeechChunks == [t \in SpeechTexts |-> chunk_text(t, DefaultMaxChars)]

\* (variant: the denial is ignored)
GateNeverDenies(allowed) == FALSE

\* if not self.rate_limiter.is_allowed(): raise
GateDenies(allowed) == ~allowed

\* (variant: the except clause swallows the error and the loop goes on)
AfterErrorContinue == "loop"

\* where text_to_speech is after generate() raised: the except clause raises
AfterError == "idle"

\* the audio generate() returns for the n-th chunk submitted
Audio(n) == <<"audio", n>>

\* text_to_speech(text, ...) up to the for loop, on a reader whose limiter holds reqs
TextToSpeechOn(reqs, t) ==
    LET allowed == IsAllowedResult(reqs, clock, max_requests, time_window)
    IN  /\ IsAllowedOn(reqs)
        /\ checks' = 1
        /\ submitted' = <<>>
        /\ failed_at' = 0
        /\ returned' = <<>>
        /\ audio_segments' = <<>>
        /\ idx' = 0
        /\ text' = t
        /\ max_chars' = DefaultMaxChars
        /\ IF GateDenies(allowed)
           THEN /\ outcome' = "RateLimitError"
                /\ chunks' = <<>>
                /\ pc' = "idle"
           ELSE /\ outcome' = "running"
                /\ chunks' = SpeechChunks[t]
                /\ pc' = "loop"

\* a call of reader.text_to_speech(text, voice, progress_bar)
TextToSpeechCall ==
    /\ pc = "idle"
    /\ \E t \in SpeechTexts : TextToSpeechOn(requests, t)

\* one pass of the for loop in which generate() returns
GenerateOk ==
    /\ pc = "loop"
    /\ idx < Len(chunks)
    /\ submitted' = Append(submitted, chunks[idx + 1])
    /\ audio_segments' = Append(audio_segments, Audio(Len(submitted) + 1))
    /\ idx' = idx + 1
    /\ UNCHANGED <<rl_vars, ct_vars, pc, checks, failed_at, outcome, returned>>

\* one pass of the for loop in which generate() raises
GenerateError ==
    /\ pc = "loop"
    /\ idx < Len(chunks)
    /\ submitted' = Append(submitted, chunks[idx + 1])
    /\ failed_at' = idx + 1
    /\ idx' = idx + 1
    /\ pc' = AfterError
    /\ outcome' = "SynthesisError"
    /\ UNCHANGED <<rl_vars, ct_vars, audio_segments, checks, returned>>

\* return audio_segments
TextToSpeechReturn ==
    /\ pc = "loop"
    /\ idx = Len(chunks)
    /\ returned' = audio_segments
    /\ outcome' = "returned"
    /\ pc' = "idle"
    /\ UNCHANGED <<rl_vars, ct_vars, idx, audio_segments, submitted, checks, failed_at>>

\* time passes: half a time_window
Wait ==
    /\ clock < MaxWaits * (time_window \div 2)
    /\ clock' = clock + (time_window \div 2)
    /\ UNCHANGED <<max_requests, time_window, requests, ret, call_now,
                   pre_requests, admitted, denials>>
    /\ UNCHANGED <<ct_vars, pc, tts_vars>>

\* PDFAudioReader.__init__
InitReader ==
    /\ RateLimitInit(ReaderMaxRequests, ReaderTimeWindow)
    /\ RateLimitGhostInit
    /\ ChunkTextIdle
    /\ TextToSpeechIdle
    /\ pc = "idle"

NextReader ==
    \/ Wait
    \/ TextToSpeechCall
    \/ GenerateOk
    \/ GenerateError
    \/ TextToSpeechReturn

\* one PDFAudioReader and any sequence of text_to_speech calls on it
SpecReader == InitReader /\ [][NextReader]_vars

\* ------------------------------------------------------------------ main

\* a run of main() that converts nothing: reader = PDFAudioReader(api_key),
\* then no file, no voices, no click, or extract_text_from_pdf raises
MainNoConversion ==
    /\ pc = "idle"
    /\ requests' = <<>>
    /\ UNCHANGED <<clock, max_requests, time_window, ret, call_now,
                   pre_requests, admitted, denials>>
    /\ UNCHANGED <<ct_vars, pc, tts_vars>>

\* a run of main() with "Convert to Audio" clicked: reader = PDFAudioReader(api_key),
\* then reader.text_to_speech(text, ...) on that reader
MainConvert ==
    /\ pc = "idle"
    /\ \E t \in SpeechTexts : TextToSpeechOn(<<>>, t)

NextSession ==
    \/ Wait
    \/ MainNoConversion
    \/ MainConvert
    \/ GenerateOk
    \/ GenerateError
    \/ TextToSpeechReturn

\* one Streamlit session: main() runs again on every interaction
SpecSession == InitReader /\ [][NextSession]_vars

\* ------------------------------------------------- claims on RateLimit

\* the stored timestamps the call at call_now found less than time_window old
LiveBefore == {i \in DOMAIN pre_requests : call_now - pre_requests[i] < time_window}
KeptBefore == SelectSeq(pre_requests, LAMBDA t : call_now - t < time_window)

\* C1: is_allowed() returns true exactly when fewer than max_requests stored
\* timestamps t have now - t < time_window (strictly); when true it appends
\* now to the stored timestamps, when false it appends nothing.
C1_IsAllowedContract ==
    ret # "none" =>
        /\ (ret = "True") <=> (Cardinality(LiveBefore) < max_requests)
        /\ ret = "True" => requests = Append(KeptBefore, call_now)
        /\ ret = "False" => requests = KeptBefore

\* a full limiter whose oldest timestamp is exactly time_window old admits the call
C1_Witness ==
    /\ ret = "True"
    /\ Len(pre_requests) = max_requests
    /\ \E i \in DOMAIN pre_requests : call_now - pre_requests[i] = time_window

\* the admissions before the last call, and the latest max_requests of them
PriorAdmitted ==
    IF ret = "True" THEN SubSeq(admitted, 1, Len(admitted) - 1) ELSE admitted
GroupOldest == PriorAdmitted[Len(PriorAdmitted) - max_requests + 1]
GroupNewest == PriorAdmitted[Len(PriorAdmitted)]

\* C2: once max_requests calls have been admitted within one time_window, a
\* call made before time_window has elapsed since the oldest of them returns
\* false, and a call made once it has elapsed returns true.
C2_SaturatedThenReleased ==
    (/\ ret # "none"
     /\ Len(PriorAdmitted) >= max_requests
     /\ GroupNewest - GroupOldest < time_window)
    => ((ret = "False") <=> (call_now - GroupOldest < time_window))

\* RateLimit(2, 10): two admissions at once, a denial, then an admission 10 s later
C2_Witness ==
    /\ <<max_requests, time_window>> = ExampleLimit
    /\ denials = 1
    /\ ret = "True"
    /\ Len(admitted) = 3
    /\ admitted[2] = admitted[1]
    /\ call_now - admitted[1] = time_window

\* C9: the stored timestamps are in non-decreasing order, never more than
\* max_requests, and after a call all of them are less than time_window old
\* at the time of that call (older ones were purged before the count).
C9_SortedAndFresh ==
    /\ \A i, j \in DOMAIN requests : i < j => requests[i] <= requests[j]
    /\ Len(requests) <= max_requests
    /\ ret # "none" =>
           \A i \in DOMAIN requests :
               /\ call_now - requests[i] < time_window
               /\ call_now - requests[i] >= 0

\* a call that purged an expired timestamp and left two or more in order
C9_Witness ==
    /\ ret # "none"
    /\ \E i \in DOMAIN pre_requests : call_now - pre_requests[i] >= time_window
    /\ Len(requests) >= 2
    /\ requests[1] < requests[Len(requests)]

\* ------------------------------------------------ claims on chunk_text

\* the non-empty, whitespace-trimmed sentences of t
Sentences(t) ==
    LET parts == Split(ReplaceNewlines(t))
    IN  SelectSeq([k \in 1..Len(parts) |-> Strip(parts[k])], LAMBDA x : x # <<>>)

\* a chunk without its last character, split back on '. '
Unjoin(chunk) == Split(SubSeq(chunk, 1, Len(chunk) - 1))

RECURSIVE Flatten(_)
Flatten(ss) == IF ss = <<>> THEN <<>> ELSE Head(ss) \o Flatten(Tail(ss))

\* C3: every chunk has length <= max_chars, except a chunk made of a single
\* sentence that alone is longer than max_chars.
C3_ChunkWithinLimit ==
    pc = "returned" =>
        \A i \in DOMAIN chunks :
            \/ Len(chunks[i]) <= max_chars
            \/ LET group == Unjoin(chunks[i])
               IN  Len(group) = 1 /\ Len(group[1]) > max_chars

\* C4: the documented example returns "Hello world.", "This is a test.",
\* "Short."; a last sentence that ends with one period gives a last chunk that
\* ends with one period.
ExampleChunks ==
    << <<"H","e","l","l","o"," ","w","o","r","l","d",".">>,
       <<"T","h","i","s"," ","i","s"," ","a"," ","t","e","s","t",".">>,
       <<"S","h","o","r","t",".">> >>

EndsWithOnePeriod(t) ==
    /\ Len(t) >= 2
    /\ t[Len(t)] = "."
    /\ t[Len(t) - 1] # "."

C4_ExampleAndFinalPeriod ==
    pc = "returned" =>
        /\ <<text, max_chars>> = ExampleInput => chunks = ExampleChunks
        /\ EndsWithOnePeriod(text) => EndsWithOnePeriod(chunks[Len(chunks)])

\* C5: the chunks, each without its trailing period and split back on '. ',
\* give exactly the non-empty trimmed sentences of the input, in order.
C5_ChunksRoundTrip ==
    pc = "returned" =>
        /\ \A i \in DOMAIN chunks : chunks[i][Len(chunks[i])] = "."
        /\ Flatten([i \in DOMAIN chunks |-> Unjoin(chunks[i])]) = Sentences(text)

\* three sentences in two chunks, the second chunk holding two of them
C5_Witness ==
    /\ pc = "returned"
    /\ Len(Sentences(text)) = 3
    /\ Len(chunks) = 2
    /\ Len(Unjoin(chunks[2])) = 2
    /\ max_chars = 4
    /\ \E i \in DOMAIN text : text[i] = "\n"

\* C10: a sentence longer than max_chars is emitted untruncated as a chunk
\* that holds that sentence alone, followed by the trailing period.
C10_LongSentenceAlone ==
    pc = "returned" =>
        LET sents == Sentences(text)
            groups == [i \in DOMAIN chunks |-> Unjoin(chunks[i])]
            long == {k \in DOMAIN sents : Len(sents[k]) > max_chars}
        IN  /\ \A i \in DOMAIN groups : \A j \in DOMAIN groups[i] :
                   Len(groups[i][j]) > max_chars => Len(groups[i]) = 1
            /\ \A k \in long :
                   \E i \in DOMAIN chunks : chunks[i] = sents[k] \o <<".">>
            /\ Cardinality(long)
                   = Cardinality({i \in DOMAIN chunks : Len(chunks[i]) > max_chars + 1})

\* "a. aaaa. a" at max_chars=3: the long sentence is the second of three chunks
C10_Witness ==
    /\ pc = "returned"
    /\ text = LongMiddle
    /\ max_chars = 3
    /\ Len(chunks) = 3
    /\ chunks[2] = <<"a", "a", "a", "a", ".">>

\* -------------------------------------- claims on text_to_speech and main

\* C6: the rate limiter is created once per session and keeps its history
\* across conversion attempts, so over any sequence of 'Convert to Audio'
\* actions at most 10 conversions are admitted in any trailing 3600 seconds.
C6_SessionLimit ==
    Cardinality({k \in DOMAIN admitted : clock - admitted[k] < ReaderTimeWindow})
        <= ReaderMaxRequests

\* C7: a text_to_speech invocation consults the rate limiter once, before any
\* chunk is submitted; when it is denied the invocation ends with the
\* rate-limit error, submits no chunk and returns no audio segment.
C7_GateOnceBeforeChunks ==
    /\ outcome # "none" => checks = 1
    /\ submitted # <<>> => (checks = 1 /\ ret = "True")
    /\ (outcome # "none" /\ ret = "False") =>
           /\ outcome = "RateLimitError"
           /\ pc = "idle"
           /\ submitted = <<>>
           /\ audio_segments = <<>>
           /\ returned = <<>>
    /\ outcome = "RateLimitError" => ret = "False"

\* the eleventh call within the hour, given the three-chunk text, is denied
C7_Witness ==
    /\ outcome = "RateLimitError"
    /\ ret = "False"
    /\ Len(requests) = ReaderMaxRequests
    /\ text = LongText
    /\ submitted = <<>>

\* C8: chunks are submitted one at a time in chunk order, each at most once;
\* when generate() raises for chunk n the invocation ends with an error, no
\* later chunk is submitted, chunk n is not submitted again and no list of
\* audio segments is returned.
C8_SequentialAbortOnError ==
    /\ Len(submitted) <= Len(chunks)
    /\ submitted = SubSeq(chunks, 1, Len(submitted))
    /\ Len(submitted) = idx
    /\ failed_at # 0 =>
           /\ outcome = "SynthesisError"
           /\ pc = "idle"
           /\ Len(submitted) = failed_at
           /\ returned = <<>>
    /\ outcome = "SynthesisError" => failed_at # 0
    /\ outcome = "returned" =>
           /\ failed_at = 0
           /\ submitted = chunks
           /\ Len(returned) = Len(chunks)

\* the second of three chunks failed: two were submitted, the third never
C8_Witness ==
    /\ Len(chunks) = 3
    /\ failed_at = 2
    /\ outcome = "SynthesisError"
    /\ submitted = SubSeq(chunks, 1, 2)

====
